---- MODULE Spec2Model ----
(***************************************************************************)
(* A state-machine model of the typed NATS messaging toolkit: the          *)
(* envelope / validation engine, the publish-subscribe manager, the        *)
(* request-reply manager and the durable (pull) consumer manager.          *)
(*                                                                         *)
(* JavaScript values are records [k |-> kind, v |-> content].  The wire    *)
(* form of a message is what JSON.stringify / JSON.parse make of it.       *)
(***************************************************************************)
EXTENDS Integers, Sequences, FiniteSets, TLC

(***************************************************************************)
(* Bounds of the model                                                     *)
(***************************************************************************)
MaxPublish == 2      \* messages on the pub/sub subject in a behaviour: publish
                     \* calls and the messages of other parties
MaxRequests == 1     \* messages on the replier's subject: request calls and
                     \* the messages of other parties
MaxDispatch == 1     \* messages on the stream: dispatch calls and the messages
                     \* of other parties
MaxOutbound == 2     \* outbound calls of the three managers taken together
MaxReplyCalls == 1   \* calls of replyWithData / replyWithError in a behaviour
MaxPulls == 3        \* pull requests issued by one consumer
BatchSize == 2       \* the batch a pull request asks for
MaxInOrder == 2      \* dispatch calls where the order of several messages matters
MaxOverlap == 2      \* request() calls waiting for their replies together

(***************************************************************************)
(* JavaScript values                                                       *)
(***************************************************************************)
Num(n) == [k |-> "number", v |-> n]
Str(s) == [k |-> "string", v |-> s]
Infinity == [k |-> "infinity", v |-> 0]
Undefined == [k |-> "undefined", v |-> 0]
Null == [k |-> "null", v |-> 0]
Obj(s) == [k |-> "object", v |-> s]

\* `a || b`
Truthy(x) == x = "true"
JsOr(a, b) == IF Truthy(a) THEN a ELSE b

(***************************************************************************)
(* Schemas (zod).  z.number() accepts every value of type number that is   *)
(* not NaN, the infinities included; z.void() accepts undefined only.      *)
(***************************************************************************)
zNumber == "z.number"
zString == "z.string"
zVoid == "z.void"

NoError == [present |-> FALSE, code |-> Undefined, data |-> Undefined]

BaseEnvelopeSchemaOk(e) ==
    /\ e.id.k = "string"
    /\ e.subject.k = "string"
    /\ e.service.k = "string"
    /\ e.instance.k \in {"string", "number", "infinity"}

ErrorEnvelopeSchemaOk(e) ==
    /\ BaseEnvelopeSchemaOk(e)
    /\ e.type = Str("error")
    /\ e.error.present
    /\ e.error.code.k \in {"string", "number", "infinity"}

DataEnvelopeSchemaOk(e) ==
    /\ BaseEnvelopeSchemaOk(e)
    /\ e.type = Str("success")

\* schema.safeParse(data).success
safeParse(schema, data) ==
    CASE schema = "BaseEnvelopeSchema" -> BaseEnvelopeSchemaOk(data)
      [] schema = "ErrorEnvelopeSchema" -> ErrorEnvelopeSchemaOk(data)
      [] schema = "DataEnvelopeSchema" -> DataEnvelopeSchemaOk(data)
      [] schema = zNumber -> data.k \in {"number", "infinity"}
      [] schema = zString -> data.k = "string"
      [] schema = zVoid -> data.k = "undefined"

(***************************************************************************)
(* The default codec of buildConfig: JSON.stringify / JSON.parse.          *)
(* JSON.stringify writes a non-finite number as null and leaves out a      *)
(* property whose value is undefined; a property read from the parsed      *)
(* object that is not there is undefined.                                  *)
(***************************************************************************)
Absent == [k |-> "absent", v |-> 0]

ToJson(x) ==
    CASE x.k = "infinity" -> Null
      [] x.k = "undefined" -> Absent
      [] OTHER -> x

FromJson(j) == IF j.k = "absent" THEN Undefined ELSE j

ErrorToJson(err) ==
    IF err.present
    THEN [present |-> TRUE, code |-> ToJson(err.code), data |-> ToJson(err.data)]
    ELSE [present |-> FALSE, code |-> Absent, data |-> Absent]

ErrorFromJson(j) ==
    IF j.present
    THEN [present |-> TRUE, code |-> FromJson(j.code), data |-> FromJson(j.data)]
    ELSE NoError

\* bytes that are no JSON text: the deserializer throws on them
Garbage == [parses |-> FALSE, json |-> <<>>]

serializer(envelope) ==
    [parses |-> TRUE,
     json |-> [id |-> ToJson(envelope.id),
               subject |-> ToJson(envelope.subject),
               date |-> ToJson(envelope.date),
               service |-> ToJson(envelope.service),
               instance |-> ToJson(envelope.instance),
               spanContext |-> ToJson(envelope.spanContext),
               data |-> ToJson(envelope.data),
               type |-> ToJson(envelope.type),
               error |-> ErrorToJson(envelope.error)]]

deserializerThrows(bytes) == ~bytes.parses

deserializer(bytes) ==
    [id |-> FromJson(bytes.json.id),
     subject |-> FromJson(bytes.json.subject),
     date |-> FromJson(bytes.json.date),
     service |-> FromJson(bytes.json.service),
     instance |-> FromJson(bytes.json.instance),
     spanContext |-> FromJson(bytes.json.spanContext),
     data |-> FromJson(bytes.json.data),
     type |-> FromJson(bytes.json.type),
     error |-> ErrorFromJson(bytes.json.error)]

(***************************************************************************)
(* Configuration                                                           *)
(***************************************************************************)
\* SetupConfig.schemaValidation as the application may give it
SetupConfig == {"undefined", "true", "false"}

buildConfig(schemaValidation) ==
    [schemaValidation |-> JsOr(schemaValidation, "true"),
     name |-> Str("service"),
     id |-> Str("instance")]

(***************************************************************************)
(* State                                                                   *)
(***************************************************************************)
VARIABLES
    setup,        \* the schemaValidation option handed to getBroker
    config,       \* the BrokerConfig shared by the managers
    validated,    \* the last call of validateEnvelope made on its own: what it
                  \* was given and what came of it
    \* publish / subscribe
    psCalls,      \* publish() calls made so far
    psSub,        \* the subscription loop: "none", "running", "dead"
    psBus,        \* messages on the subject, not yet taken by the loop
    psMsgs,       \* messages the loop has taken
    \* request / reply
    rpSubject,    \* the subject the replier under study is registered for
    rqCalls,      \* request() calls made so far
    rpLoop,       \* the reply loop: "none", "running", "dead"
    rpBus,        \* request messages on the subject, not yet taken by the loop
    rpMsgs,       \* request messages the loop has taken
    replies,      \* reply messages handed to connection.publish
    \* durable consumer
    dsCalls,      \* dispatch() calls made so far
    stream,       \* messages retained by the stream, not yet delivered
    cLoop,        \* the consumer loop: "none", "running", "ended", "dead"
    interval,     \* the closure variable `interval`: 0 is null
    timers,       \* timer handles armed in the runtime
    nextTimer,    \* the next handle setInterval returns
    pulls,        \* pull requests outstanding: remaining credit of each
    pullCount,    \* pull requests issued so far
    subOpen,      \* the pull subscription is open (not drained, not closed)
    scheduledForStop,
    cMsgs         \* messages the consumer loop has taken

psVars == <<psCalls, psSub, psBus, psMsgs>>
rpVars == <<rpSubject, rqCalls, rpLoop, rpBus, rpMsgs, replies>>
cVars == <<dsCalls, stream, cLoop, interval, timers, nextTimer, pulls, pullCount,
           subOpen, scheduledForStop, cMsgs>>
vars == <<setup, config, validated, psVars, rpVars, cVars>>

(***************************************************************************)
(* Shared manager base                                                     *)
(***************************************************************************)
NoSubProp == [present |-> FALSE, data |-> Undefined, schema |-> "none"]
SubProp(d, s) == [present |-> TRUE, data |-> d, schema |-> s]

\* [evaluated]: the number of schemas safeParse was called on
ValidationTrue == [ok |-> TRUE, thrown |-> FALSE, error |-> "none", evaluated |-> 0]

Min(S) == CHOOSE x \in S : \A y \in S : x <= y

\* a faulty variant: the schemas are never consulted
validateEnvelopeUnchecked(envelope, subProp, customEnvelopeSchema, throwException) ==
    ValidationTrue

Max(S) == CHOOSE x \in S : \A y \in S : x >= y

\* a faulty variant: every schema is evaluated and the last failure reported
validateEnvelopeLastError(envelope, subProp, customEnvelopeSchema, throwException) ==
    LET subSchemas ==
            <<[data |-> envelope, schema |-> customEnvelopeSchema]>>
            \o (IF subProp.present
                THEN <<[data |-> subProp.data, schema |-> subProp.schema]>>
                ELSE <<>>)
        failing == {i \in 1..Len(subSchemas) :
                        ~safeParse(subSchemas[i].schema, subSchemas[i].data)}
    IN  IF failing = {}
        THEN [ValidationTrue EXCEPT !.evaluated = Len(subSchemas)]
        ELSE IF ~Truthy(config.schemaValidation)
             THEN [ValidationTrue EXCEPT !.evaluated = Len(subSchemas)]
             ELSE [ok |-> FALSE, thrown |-> throwException,
                   error |-> subSchemas[Max(failing)].schema,
                   evaluated |-> Len(subSchemas)]

\* a faulty variant: the schemaValidation switch is not consulted
validateEnvelopeStrict(envelope, subProp, customEnvelopeSchema, throwException) ==
    LET subSchemas ==
            <<[data |-> envelope, schema |-> customEnvelopeSchema]>>
            \o (IF subProp.present
                THEN <<[data |-> subProp.data, schema |-> subProp.schema]>>
                ELSE <<>>)
        failing == {i \in 1..Len(subSchemas) :
                        ~safeParse(subSchemas[i].schema, subSchemas[i].data)}
    IN  IF failing = {}
        THEN [ValidationTrue EXCEPT !.evaluated = Len(subSchemas)]
        ELSE [ok |-> FALSE, thrown |-> throwException,
              error |-> subSchemas[Min(failing)].schema,
              evaluated |-> Min(failing)]

\* validateEnvelope: [ok] is `=== true`; otherwise error names the schema that
\* failed, returned (thrown = FALSE) or raised (thrown = TRUE)
validateEnvelope(envelope, subProp, customEnvelopeSchema, throwException) ==
    LET subSchemas ==
            <<[data |-> envelope, schema |-> customEnvelopeSchema]>>
            \o (IF subProp.present
                THEN <<[data |-> subProp.data, schema |-> subProp.schema]>>
                ELSE <<>>)
        failing == {i \in 1..Len(subSchemas) :
                        ~safeParse(subSchemas[i].schema, subSchemas[i].data)}
    IN  IF failing = {}
        THEN [ValidationTrue EXCEPT !.evaluated = Len(subSchemas)]
        ELSE IF ~Truthy(config.schemaValidation)
             THEN [ValidationTrue EXCEPT !.evaluated = Min(failing)]
             ELSE [ok |-> FALSE, thrown |-> throwException,
                   error |-> subSchemas[Min(failing)].schema,
                   evaluated |-> Min(failing)]

buildBaseEnvelope(subject, parentSpan) ==
    [id |-> Str("uuid"),
     subject |-> Str(subject),
     date |-> Num(0),
     service |-> config.name,
     instance |-> config.id,
     spanContext |-> parentSpan,
     data |-> Undefined,
     type |-> Undefined,
     error |-> NoError]

\* the span withSpan starts, linked to the parent context when there is one
\* [log]: the calls withSpan has made on the span, in order
NoSpan == [started |-> FALSE, link |-> Undefined, ended |-> 0,
           status |-> "unset", exceptions |-> 0, events |-> 0, log |-> <<>>]
startActiveSpan(parentSpanContext) == [NoSpan EXCEPT !.started = TRUE,
                                                     !.link = parentSpanContext]
\* withSpan, .then: the callback's promise resolved
spanResolved(span) == [span EXCEPT !.ended = @ + 1, !.log = Append(@, <<"end">>)]
\* withSpan, .catch: the callback's promise rejected with error
spanRejected(span, error) ==
    [span EXCEPT !.exceptions = @ + 1, !.status = "error", !.ended = @ + 1,
                 !.log = @ \o <<<<"recordException", error>>, <<"setStatus", "ERROR">>,
                                <<"end">>>>]

\* What a loop keeps of a message it has taken.
\*   src       the outbound call the message comes from (0: another party)
\*   reply     the reply destination (0: none)
\*   decoded   the deserializer returned
\*   received  envelope.data as decoded
\*   handler   "none" (not called), "running", "returned", "threw"
\*   data      the data the handler was called with
\*   calls     calls of replyWithData / replyWithError the handler has made
\*   said      what the handler gave to each of these calls, and whether
\*             the call raised
\*   promise   the callback's promise: "pending", "resolved", "rejected",
\*             and "settled" once withSpan has ended the span
\*   failure   the error the callback's promise rejected with
\*   outer     the promise withSpan returned, and the error it rejected with
\*   ack       the acknowledgment the message has got ("none", "ack", "nak",
\*             "term"), and who gave it
Taken(message) ==
    [src |-> message.src, reply |-> message.reply, decoded |-> FALSE,
     received |-> Undefined, handler |-> "none", data |-> Undefined,
     calls |-> 0, said |-> <<>>, promise |-> "pending", failure |-> "none",
     outer |-> [state |-> "pending", error |-> "none"], span |-> NoSpan,
     ack |-> [state |-> "none", by |-> "none"]]

\* a faulty variant: the .catch branch rejects and leaves the span open
withSpanSettleLeaky(rec) ==
    [rec EXCEPT !.promise = "settled",
                !.span = IF rec.promise = "resolved"
                         THEN spanResolved(@)
                         ELSE [@ EXCEPT !.exceptions = @ + 1, !.status = "error"],
                !.outer = IF rec.promise = "resolved"
                          THEN [state |-> "resolved", error |-> "none"]
                          ELSE [state |-> "rejected", error |-> rec.failure]]

\* withSpan's .then / .catch for the message record rec
withSpanSettle(rec) ==
    [rec EXCEPT !.promise = "settled",
                !.span = IF rec.promise = "resolved"
                         THEN spanResolved(@) ELSE spanRejected(@, rec.failure),
                !.outer = IF rec.promise = "resolved"
                          THEN [state |-> "resolved", error |-> "none"]
                          ELSE [state |-> "rejected", error |-> rec.failure]]

\* withSpan has rejected the promise it returned for rec (reject(error) in its
\* .catch); the loop that called withBasicPayload neither awaits nor catches
\* that promise
UnhandledRejection(rec) == rec.promise = "settled" /\ rec.span.status = "error"

\* A rejection nobody handles is pending in the process of a loop: that of a
\* message's promise, or that of the loop's own async function (loop "dead").
\* Loop states: "none", "running", "dead" (an exception left the loop),
\* "ended" (the iteration is over), "down" (the process has ended).
RejectionPending(loop, msgs) ==
    \/ loop = "dead"
    \/ loop = "running" /\ \E i \in 1..Len(msgs) : UnhandledRejection(msgs[i])

\* payloads the application may hand to publish / dispatch / request
Payloads == {Num(10), Infinity, Str("x")}
ParentSpans == {Undefined, Obj("parent")}
\* "function": a builder callback; "object": a complete envelope
Forms == {"function", "object"}

\* the complete envelope of the test "with custom envelope": with its id, with
\* an empty id or without id
CustomEnvelope(subject, data, id) ==
    [id |-> id, subject |-> Str(subject), date |-> Num(0), service |-> Str("test"),
     instance |-> Str("1"), spanContext |-> Undefined, data |-> data,
     type |-> Undefined, error |-> NoError]
CustomIds == {Str("1"), Str(""), Undefined}

\* the envelope an outbound call works on: match(typeof message)
OutEnvelope(subject, form, data, parentSpan, id) ==
    IF form = "function"
    THEN [buildBaseEnvelope(subject, parentSpan) EXCEPT !.data = data]
    ELSE CustomEnvelope(subject, data, id)

\* what an outbound call leaves behind
OutCall(subject, form, data, parentSpan, envelope, validation) ==
    [subject |-> subject, form |-> form, payload |-> data, parent |-> parentSpan,
     baseOk |-> BaseEnvelopeSchemaOk(envelope),
     outcome |-> IF validation.ok THEN "sent" ELSE "rejected",
     handed |-> IF validation.ok THEN 1 ELSE 0,
     resultType |-> Undefined, result |-> Undefined, resultError |-> NoError]

\* messages of another party a loop has seen or is about to see
ForeignCount(bus, msgs) ==
    Cardinality({i \in 1..Len(bus) : bus[i].src = 0})
    + Cardinality({i \in 1..Len(msgs) : msgs[i].src = 0})

\* one more message fits in the behaviour
Budget(calls, bus, msgs, max) == Len(calls) + ForeignCount(bus, msgs) < max

(***************************************************************************)
(* Publish / subscribe manager                                             *)
(***************************************************************************)
PsSubject == "foo.number.a"
subscriptions == [s \in {PsSubject} |-> zNumber]

publish(subject, form, data, parentSpan, id) ==
    LET envelope == OutEnvelope(subject, form, data, parentSpan, id)
        validation == validateEnvelope(envelope,
                          SubProp(envelope.data, subscriptions[subject]),
                          "BaseEnvelopeSchema", FALSE)
    IN  /\ psCalls' = Append(psCalls, OutCall(subject, form, data, parentSpan,
                                              envelope, validation))
        /\ psBus' = IF validation.ok /\ psSub # "none"
                    THEN Append(psBus, [src |-> Len(psCalls) + 1, reply |-> 0,
                                        data |-> serializer(envelope)])
                    ELSE psBus
        /\ UNCHANGED <<psSub, psMsgs>>

Publish ==
    \E form \in Forms, data \in Payloads, parentSpan \in ParentSpans, id \in CustomIds :
        /\ form = "function" => id = Str("1")
        /\ form = "object" => parentSpan = Undefined
        /\ Budget(psCalls, psBus, psMsgs, MaxPublish)
        /\ publish(PsSubject, form, data, parentSpan, id)
        /\ UNCHANGED <<setup, config, validated, rpVars, cVars>>

\* publish(subject, b => b(10)), called again while the handlers of earlier
\* messages may still be suspended
PublishNumber ==
    /\ Len(psCalls) < MaxOverlap
    /\ publish(PsSubject, "function", Num(10), Undefined, Str("1"))
    /\ UNCHANGED <<setup, config, validated, rpVars, cVars>>

\* another party publishes on the subject: bytes that are no JSON
PsForeignPublish ==
    /\ psSub # "none"
    /\ Budget(psCalls, psBus, psMsgs, MaxPublish)
    /\ psBus' = Append(psBus, [src |-> 0, reply |-> 0, data |-> Garbage])
    /\ UNCHANGED <<setup, config, validated, psCalls, psSub, psMsgs, rpVars, cVars>>

\* subscribe(): connection.subscribe and the start of the loop
Subscribe ==
    /\ psSub = "none"
    /\ psSub' = "running"
    /\ UNCHANGED <<setup, config, validated, psCalls, psBus, psMsgs, rpVars, cVars>>

\* The callback of subscribe and of consume for one decoded message:
\* validateEnvelope with throwException, then the handler is called.
validatedCallback(rec, envelope, schema) ==
    LET validation == validateEnvelope(envelope, SubProp(envelope.data, schema),
                                       "BaseEnvelopeSchema", TRUE)
    IN  IF validation.ok
        THEN [rec EXCEPT !.handler = "running", !.data = envelope.data]
        ELSE [rec EXCEPT !.promise = "rejected", !.failure = "ZodError"]

\* withBasicPayload: the bytes are decoded in the loop's own body (a throw
\* there leaves the loop), then withSpan starts the span and runs the callback
withBasicPayload(message) ==
    IF deserializerThrows(message.data)
    THEN [loop |-> "dead", rec |-> Taken(message)]
    ELSE LET envelope == deserializer(message.data)
         IN  [loop |-> "running",
              rec |-> [Taken(message) EXCEPT
                          !.decoded = TRUE,
                          !.received = envelope.data,
                          !.span = startActiveSpan(envelope.spanContext)]]

\* the body of the subscription loop for one message
\* a faulty variant: the loop awaits the callback of a message before it takes
\* the next one
SubscribeDeliverAwaiting ==
    /\ psSub = "running"
    /\ psBus # <<>>
    /\ \A i \in 1..Len(psMsgs) : psMsgs[i].handler # "running"
    /\ LET r == withBasicPayload(Head(psBus))
       IN  /\ psSub' = r.loop
           /\ psMsgs' = Append(psMsgs,
                 IF r.rec.decoded
                 THEN validatedCallback(r.rec, deserializer(Head(psBus).data),
                                        subscriptions[PsSubject])
                 ELSE r.rec)
    /\ psBus' = Tail(psBus)
    /\ UNCHANGED <<setup, config, validated, psCalls, rpVars, cVars>>

SubscribeDeliver ==
    /\ psSub = "running"
    /\ psBus # <<>>
    /\ LET r == withBasicPayload(Head(psBus))
       IN  /\ psSub' = r.loop
           /\ psMsgs' = Append(psMsgs,
                 IF r.rec.decoded
                 THEN validatedCallback(r.rec, deserializer(Head(psBus).data),
                                        subscriptions[PsSubject])
                 ELSE r.rec)
    /\ psBus' = Tail(psBus)
    /\ UNCHANGED <<setup, config, validated, psCalls, rpVars, cVars>>

\* the subscriber's promise resolves
SubscriberReturns ==
    \E i \in 1..Len(psMsgs) :
        /\ psSub # "down"
        /\ psMsgs[i].handler = "running"
        /\ psMsgs' = [psMsgs EXCEPT ![i].handler = "returned",
                                    ![i].promise = "resolved"]
        /\ UNCHANGED <<setup, config, validated, psCalls, psSub, psBus, rpVars, cVars>>

\* the subscriber throws, or its promise rejects
SubscriberThrows ==
    \E i \in 1..Len(psMsgs) :
        /\ psSub # "down"
        /\ psMsgs[i].handler = "running"
        /\ psMsgs' = [psMsgs EXCEPT ![i].handler = "threw",
                                    ![i].promise = "rejected",
                                    ![i].failure = "Error"]
        /\ UNCHANGED <<setup, config, validated, psCalls, psSub, psBus, rpVars, cVars>>

\* withSpan ends the span of a message whose callback has settled
PsWithSpanSettles ==
    \E i \in 1..Len(psMsgs) :
        /\ psSub # "down"
        /\ psMsgs[i].promise \in {"resolved", "rejected"}
        /\ psMsgs' = [psMsgs EXCEPT ![i] = withSpanSettle(@)]
        /\ UNCHANGED <<setup, config, validated, psCalls, psSub, psBus, rpVars, cVars>>

\* The runtime raises a rejection nobody handles as an uncaught exception and
\* the process ends: the default of Node.js since version 15.  An older
\* runtime, or one told to warn only, goes on: then this step is not taken.
PsProcessEnds ==
    /\ RejectionPending(psSub, psMsgs)
    /\ psSub' = "down"
    /\ UNCHANGED <<setup, config, validated, psCalls, psBus, psMsgs, rpVars, cVars>>

(***************************************************************************)
(* Request / reply manager                                                 *)
(***************************************************************************)
NoErrors == [c \in {} |-> zVoid]

\* the definitions of tests/repliers.test.ts, and one more whose declared
\* error carries a number
repliers ==
    [s \in {"foo.ask", "foo.error", "foo.limit"} |->
        CASE s = "foo.ask" ->
                 [request |-> zNumber, reply |-> zNumber, errors |-> NoErrors]
          [] s = "foo.error" ->
                 [request |-> zVoid, reply |-> zVoid,
                  errors |-> [c \in {"YO"} |-> zString]]
          [] s = "foo.limit" ->
                 [request |-> zVoid, reply |-> zVoid,
                  errors |-> [c \in {"LIMIT"} |-> zNumber]]]

\* the two codes the replier itself replies with
ReservedCodes == {"PAYLOAD_VALIDATION", "INTERNAL_ERROR"}

ErrorPayload(code, data) == [present |-> TRUE, code |-> Str(code), data |-> data]

\* a faulty variant: no error code has a schema to validate against
getErrorValidationChainNone(subject, error) == NoSubProp

getErrorValidationChain(subject, error) ==
    LET errors == repliers[subject].errors
    IN  IF error.code.k = "string" /\ error.code.v \in DOMAIN errors
        THEN SubProp(error.data, errors[error.code.v])
        ELSE NoSubProp

buildErrorEnvelope(subject, error) ==
    [buildBaseEnvelope(subject, Undefined) EXCEPT !.type = Str("error"),
                                                  !.error = error]

buildDataEnvelope(subject, data) ==
    [buildBaseEnvelope(subject, Undefined) EXCEPT !.type = Str("success"),
                                                  !.data = data]

\* send and replyWithError call one another.  Each yields the envelopes it has
\* handed to connection.publish, in order, and whether it threw.
RECURSIVE send(_, _, _, _)
RECURSIVE replyWithError(_, _)

\* a faulty variant: the envelope is published without validation
sendUnchecked(subject, envelope, validationChain, customEnvelopeSchema) ==
    [pub |-> <<serializer(envelope)>>, thrown |-> FALSE]

send(subject, envelope, validationChain, customEnvelopeSchema) ==
    LET validation == validateEnvelope(envelope, validationChain,
                                       customEnvelopeSchema, FALSE)
    IN  IF ~validation.ok
        THEN [pub |-> replyWithError(subject,
                          buildErrorEnvelope(subject,
                              ErrorPayload("INTERNAL_ERROR", Obj("ZodError")))).pub,
              thrown |-> TRUE]
        ELSE [pub |-> <<serializer(envelope)>>, thrown |-> FALSE]

\* replyWithError on the envelope its match(typeof data) step yields; reading
\* envelope.error.code of an envelope without error throws
replyWithError(subject, envelope) ==
    IF ~envelope.error.present
    THEN [pub |-> <<>>, thrown |-> TRUE]
    ELSE send(subject, envelope, getErrorValidationChain(subject, envelope.error),
              "ErrorEnvelopeSchema")

replyWithData(subject, envelope) ==
    send(subject, envelope, SubProp(envelope.data, repliers[subject].reply),
         "DataEnvelopeSchema")

\* a faulty variant: the catch block only rethrows
handlerCatchSilent(subject) == [pub |-> <<>>, thrown |-> TRUE]

\* the catch block around the handler: reply INTERNAL_ERROR, then rethrow
handlerCatch(subject) ==
    [pub |-> replyWithError(subject,
                 buildErrorEnvelope(subject,
                     ErrorPayload("INTERNAL_ERROR", Obj("Error")))).pub,
     thrown |-> TRUE]

\* a faulty variant: the request is not validated before the handler is called
requestValidationSkipped(subject, envelope) == ValidationTrue

requestValidation(subject, envelope) ==
    validateEnvelope(envelope, SubProp(envelope.data, repliers[subject].request),
                     "BaseEnvelopeSchema", FALSE)

\* The callback of reply for one decoded message, up to the call of the
\* handler: [rec] the message record, [pub] the replies published.
replyCallback(subject, rec, envelope) ==
    IF rec.reply = 0
    THEN [rec |-> [rec EXCEPT !.span.events = @ + 1, !.promise = "resolved"],
          pub |-> <<>>]
    ELSE IF ~requestValidation(subject, envelope).ok
         THEN [rec |-> [rec EXCEPT !.promise = "rejected", !.failure = "ZodError"],
               pub |-> replyWithError(subject,
                           buildErrorEnvelope(subject,
                               ErrorPayload("PAYLOAD_VALIDATION",
                                            Obj("ZodError")))).pub]
         ELSE [rec |-> [rec EXCEPT !.handler = "running", !.data = envelope.data],
               pub |-> <<>>]

\* a faulty variant: the reply destination is kept in one place for the whole
\* replier, so a reply goes to the destination of the message taken last
PublishedToLatest(pub, to, i) ==
    [n \in 1..Len(pub) |->
        [to |-> IF i > Len(rpMsgs) THEN to ELSE rpMsgs[Len(rpMsgs)].reply,
         msg |-> i, data |-> pub[n]]]

\* the reply messages for the envelopes pub, published for message i
Published(pub, to, i) ==
    [n \in 1..Len(pub) |-> [to |-> to, msg |-> i, data |-> pub[n]]]

(***************************************************************************)
(* request()                                                               *)
(***************************************************************************)
RequestPayloads(subject) ==
    IF repliers[subject].request = zNumber THEN Payloads ELSE {Undefined, Str("x")}

\* request(): the envelope maker calls buildBaseEnvelope(subject) without the
\* requestSpan it was given
request(subject, form, data, requestSpan, id) ==
    LET envelope == OutEnvelope(subject, form, data, Undefined, id)
        validation == validateEnvelope(envelope,
                          SubProp(envelope.data, repliers[subject].request),
                          "BaseEnvelopeSchema", FALSE)
        call == OutCall(subject, form, data, requestSpan, envelope, validation)
    IN  /\ rqCalls' = Append(rqCalls,
              IF validation.ok /\ rpLoop = "none"
              THEN [call EXCEPT !.outcome = "timeout"]
              ELSE call)
        /\ rpBus' = IF validation.ok /\ rpLoop # "none"
                    THEN Append(rpBus, [src |-> Len(rqCalls) + 1,
                                        reply |-> Len(rqCalls) + 1,
                                        data |-> serializer(envelope)])
                    ELSE rpBus
        /\ UNCHANGED <<rpSubject, rpLoop, rpMsgs, replies>>

Request ==
    \E form \in Forms, data \in RequestPayloads(rpSubject), id \in CustomIds :
        /\ form = "function" => id = Str("1")
        /\ Budget(rqCalls, rpBus, rpMsgs, MaxRequests)
        /\ request(rpSubject, form, data, Undefined, id)
        /\ UNCHANGED <<setup, config, validated, psVars, cVars>>

\* request(subject, b => b(data)), as the tests call it
RequestByBuilder ==
    \E data \in RequestPayloads(rpSubject) :
        /\ Budget(rqCalls, rpBus, rpMsgs, MaxRequests)
        /\ request(rpSubject, "function", data, Undefined, Str("1"))
        /\ UNCHANGED <<setup, config, validated, psVars, cVars>>

\* request(subject, b => b(data)) called again while earlier requests are
\* still waiting for their replies
RequestInFlight ==
    \E data \in RequestPayloads(rpSubject) :
        /\ Len(rqCalls) < MaxOverlap
        /\ request(rpSubject, "function", data, Undefined, Str("1"))
        /\ UNCHANGED <<setup, config, validated, psVars, cVars>>

\* request('foo.ask', b => b(10)), called again while earlier requests are
\* still waiting for their replies
RequestNumber ==
    /\ rpSubject = "foo.ask"
    /\ Len(rqCalls) < MaxOverlap
    /\ request("foo.ask", "function", Num(10), Undefined, Str("1"))
    /\ UNCHANGED <<setup, config, validated, psVars, cVars>>

\* request(subject, b => b(data), requestSpan)
RequestWithSpan ==
    \E data \in RequestPayloads(rpSubject), requestSpan \in ParentSpans :
        /\ Budget(rqCalls, rpBus, rpMsgs, MaxRequests)
        /\ request(rpSubject, "function", data, requestSpan, Str("1"))
        /\ UNCHANGED <<setup, config, validated, psVars, cVars>>

\* the reply request() takes: the first one published to its inbox
FirstReply(c) ==
    replies[Min({n \in 1..Len(replies) : replies[n].to = c})]

\* a faulty variant: the decoded reply is returned as it is
requestReturnsUnvalidated(subject, call, resMsg) ==
    IF deserializerThrows(resMsg.data)
    THEN [call EXCEPT !.outcome = "replyRejected"]
    ELSE LET resData == deserializer(resMsg.data)
         IN  [call EXCEPT !.outcome = "resolved", !.resultType = resData.type,
                          !.result = resData.data, !.resultError = resData.error]

\* request() after the reply has arrived: decode, validate by type, return or throw
requestReceives(subject, call, resMsg) ==
    IF deserializerThrows(resMsg.data)
    THEN [call EXCEPT !.outcome = "replyRejected"]
    ELSE
    LET resData == deserializer(resMsg.data)
        resValidation ==
            IF resData.type = Str("success")
            THEN validateEnvelope(resData,
                     SubProp(resData.data, repliers[subject].reply),
                     "DataEnvelopeSchema", FALSE)
            ELSE IF ~resData.error.present
                 THEN [ok |-> FALSE, thrown |-> TRUE, error |-> "TypeError"]
                 ELSE validateEnvelope(resData,
                          getErrorValidationChain(subject, resData.error),
                          "ErrorEnvelopeSchema", FALSE)
    IN  IF resValidation.ok
        THEN [call EXCEPT !.outcome = "resolved", !.resultType = resData.type,
                          !.result = resData.data, !.resultError = resData.error]
        ELSE [call EXCEPT !.outcome = "replyRejected"]

RequestReceives ==
    \E c \in 1..Len(rqCalls) :
        /\ rqCalls[c].outcome = "sent"
        /\ \E n \in 1..Len(replies) : replies[n].to = c
        /\ rqCalls' = [rqCalls EXCEPT ![c] = requestReceives(rpSubject, @, FirstReply(c))]
        /\ UNCHANGED <<setup, config, validated, psVars, cVars, rpSubject, rpLoop, rpBus,
                       rpMsgs, replies>>

\* a faulty variant: on the timeout the request is sent once more
RequestRetries ==
    \E c \in 1..Len(rqCalls) :
        /\ rqCalls[c].outcome = "sent"
        /\ rqCalls' = [rqCalls EXCEPT ![c].outcome = "timeout", ![c].handed = @ + 1]
        /\ rpBus' = Append(rpBus, [src |-> c, reply |-> c, data |-> Garbage])
        /\ UNCHANGED <<setup, config, validated, psVars, cVars, rpSubject, rpLoop, rpMsgs, replies>>

\* no reply within the timeout: connection.request rejects
RequestTimesOut ==
    \E c \in 1..Len(rqCalls) :
        /\ rqCalls[c].outcome = "sent"
        /\ rqCalls' = [rqCalls EXCEPT ![c].outcome = "timeout"]
        /\ UNCHANGED <<setup, config, validated, psVars, cVars, rpSubject, rpLoop, rpBus,
                       rpMsgs, replies>>

\* what a responder that is not this replier may answer a request with: no
\* JSON, success envelopes, error envelopes with declared and undeclared codes,
\* an envelope of another type, a success envelope without id, success
\* envelopes that also have an error
ForeignReplyBytes(subject) ==
    {Garbage}
    \cup {serializer(buildDataEnvelope(subject, d)) : d \in {Num(20), Undefined, Str("x")}}
    \cup {serializer(buildErrorEnvelope(subject, ErrorPayload(c, d))) :
              c \in DOMAIN repliers[subject].errors \cup {"NOPE"},
              d \in {Str("error"), Num(1)}}
    \cup {serializer([buildBaseEnvelope(subject, Undefined) EXCEPT !.type = Str("other")]),
          serializer([buildDataEnvelope(subject, Num(20)) EXCEPT !.id = Undefined])}
    \cup {serializer([buildDataEnvelope(subject, d) EXCEPT
                          !.error = ErrorPayload("NOPE", Str("error"))]) :
              d \in {Num(20), Undefined}}

\* another responder on the subject answers a request that is waiting
ForeignReplies ==
    \E c \in 1..Len(rqCalls) :
        \E bytes \in ForeignReplyBytes(rpSubject) :
            /\ rqCalls[c].outcome = "sent"
            /\ \A n \in 1..Len(replies) : replies[n].to # c
            /\ replies' = Append(replies, [to |-> c, msg |-> 0, data |-> bytes])
            /\ UNCHANGED <<setup, config, validated, psVars, cVars, rpSubject, rqCalls, rpLoop,
                           rpBus, rpMsgs>>

\* another party puts a message on the subject, with a reply destination of
\* its own (-1) or with none: no JSON, or an envelope whose payload violates
\* the request schema of every subject of the registry
RpForeignPublish ==
    \E reply \in {0, -1}, garbage \in BOOLEAN :
        /\ rpLoop # "none"
        /\ Budget(rqCalls, rpBus, rpMsgs, MaxRequests)
        /\ rpBus' = Append(rpBus,
              [src |-> 0, reply |-> reply,
               data |-> IF garbage THEN Garbage
                        ELSE serializer(CustomEnvelope(rpSubject, Str("x"), Str("1")))])
        /\ UNCHANGED <<setup, config, validated, psVars, cVars, rpSubject, rqCalls, rpLoop,
                       rpMsgs, replies>>

(***************************************************************************)
(* reply()                                                                 *)
(***************************************************************************)
\* reply(): connection.subscribe and the start of the loop
Reply ==
    /\ rpLoop = "none"
    /\ rpLoop' = "running"
    /\ UNCHANGED <<setup, config, validated, psVars, cVars, rpSubject, rqCalls, rpBus,
                   rpMsgs, replies>>

\* the body of the reply loop for one message
ReplyDeliver ==
    /\ rpLoop = "running"
    /\ rpBus # <<>>
    /\ LET message == Head(rpBus)
           r == withBasicPayload(message)
           c == IF r.rec.decoded
                THEN replyCallback(rpSubject, r.rec, deserializer(message.data))
                ELSE [rec |-> r.rec, pub |-> <<>>]
       IN  /\ rpLoop' = r.loop
           /\ rpMsgs' = Append(rpMsgs, c.rec)
           /\ replies' = replies \o Published(c.pub, message.reply, Len(rpMsgs) + 1)
    /\ rpBus' = Tail(rpBus)
    /\ UNCHANGED <<setup, config, validated, psVars, cVars, rpSubject, rqCalls>>

\* what the handler may reply with
ReplyDataValues(subject, data) ==
    IF repliers[subject].reply = zNumber
    THEN {IF data.k = "number" THEN Num(data.v + 10) ELSE Num(20), Infinity, Str("x")}
    ELSE {Undefined, Str("x")}

ReplyErrorPayloads(subject) ==
    {ErrorPayload(code, data) : code \in DOMAIN repliers[subject].errors,
                                data \in {Str("error"), Infinity}}
    \cup {ErrorPayload("NOPE", Str("error"))}

\* calls of the reply functions made so far
RECURSIVE SumCalls(_)
SumCalls(msgs) == IF msgs = <<>> THEN 0 ELSE Head(msgs).calls + SumCalls(Tail(msgs))
ReplyCalls == SumCalls(rpMsgs)

\* The handler calls a reply function, which yields r.  When the function
\* throws, the handler either catches the error and goes on, or lets it out:
\* then the catch block around the handler runs and the callback rejects.
handlerReplies(i, r, propagate, what) ==
    LET out == r.thrown /\ propagate
        pub == IF out THEN r.pub \o handlerCatch(rpSubject).pub ELSE r.pub
    IN  /\ rpLoop # "down"
        /\ rpMsgs[i].handler = "running"
        /\ ReplyCalls < MaxReplyCalls
        /\ propagate => r.thrown
        /\ rpMsgs' = [rpMsgs EXCEPT
              ![i].calls = @ + 1,
              ![i].said = Append(@, [fn |-> what.fn, error |-> what.error,
                                     data |-> what.data, raised |-> r.thrown]),
              ![i].handler = IF out THEN "threw" ELSE @,
              ![i].promise = IF out THEN "rejected" ELSE @,
              ![i].failure = IF out THEN "ReplyFunctionError" ELSE @]
        /\ replies' = replies \o Published(pub, rpMsgs[i].reply, i)
        /\ UNCHANGED <<setup, config, validated, psVars, cVars, rpSubject, rqCalls, rpLoop, rpBus>>

\* the handler calls replyWithData with a builder
HandlerRepliesWithData ==
    \E i \in 1..Len(rpMsgs), propagate \in BOOLEAN :
        \E data \in ReplyDataValues(rpSubject, rpMsgs[i].data) :
            handlerReplies(i,
                replyWithData(rpSubject, buildDataEnvelope(rpSubject, data)),
                propagate,
                [fn |-> "replyWithData", error |-> NoError, data |-> data])

\* the handler calls replyWithError with a builder
HandlerRepliesWithError ==
    \E i \in 1..Len(rpMsgs), propagate \in BOOLEAN :
        \E error \in ReplyErrorPayloads(rpSubject) :
            handlerReplies(i,
                replyWithError(rpSubject, buildErrorEnvelope(rpSubject, error)),
                propagate,
                [fn |-> "replyWithError", error |-> error, data |-> Undefined])

\* complete reply envelopes a handler may hand to the reply functions in place
\* of a builder: a success envelope that also has an error, an error envelope
\* that also has data
CompleteReplies(subject) ==
    {[buildDataEnvelope(subject, d) EXCEPT !.error = ErrorPayload("NOPE", Str("error"))] :
        d \in {x \in ReplyDataValues(subject, Undefined) :
                    safeParse(repliers[subject].reply, x)}}
    \cup {[buildErrorEnvelope(subject, ErrorPayload("NOPE", Str("error")))
              EXCEPT !.data = Num(20)]}

\* the handler calls replyWithData or replyWithError with a complete envelope
HandlerRepliesWithEnvelope ==
    \E i \in 1..Len(rpMsgs), propagate \in BOOLEAN :
        \E envelope \in CompleteReplies(rpSubject) :
            IF envelope.type = Str("success")
            THEN handlerReplies(i, replyWithData(rpSubject, envelope), propagate,
                     [fn |-> "replyWithData", error |-> envelope.error,
                      data |-> envelope.data])
            ELSE handlerReplies(i, replyWithError(rpSubject, envelope), propagate,
                     [fn |-> "replyWithError", error |-> envelope.error,
                      data |-> envelope.data])

\* the handler throws, or its promise rejects: the catch block runs
HandlerThrows ==
    \E i \in 1..Len(rpMsgs) :
        /\ rpLoop # "down"
        /\ rpMsgs[i].handler = "running"
        /\ rpMsgs' = [rpMsgs EXCEPT ![i].handler = "threw",
                                    ![i].promise = "rejected",
                                    ![i].failure = "Error"]
        /\ replies' = replies \o Published(handlerCatch(rpSubject).pub,
                                           rpMsgs[i].reply, i)
        /\ UNCHANGED <<setup, config, validated, psVars, cVars, rpSubject, rqCalls, rpLoop, rpBus>>

\* the handler returns, or its promise resolves
\* a faulty variant: a handler that returns without having replied is
\* answered for with an empty success envelope
HandlerReturnsAnswered ==
    \E i \in 1..Len(rpMsgs) :
        /\ rpLoop # "down"
        /\ rpMsgs[i].handler = "running"
        /\ rpMsgs' = [rpMsgs EXCEPT ![i].handler = "returned",
                                    ![i].promise = "resolved"]
        /\ replies' = IF rpMsgs[i].calls = 0
                      THEN replies \o Published(
                               <<buildDataEnvelope(rpSubject, Undefined)>>,
                               rpMsgs[i].reply, i)
                      ELSE replies
        /\ UNCHANGED <<setup, config, validated, psVars, cVars, rpSubject, rqCalls, rpLoop,
                       rpBus>>

HandlerReturns ==
    \E i \in 1..Len(rpMsgs) :
        /\ rpLoop # "down"
        /\ rpMsgs[i].handler = "running"
        /\ rpMsgs' = [rpMsgs EXCEPT ![i].handler = "returned",
                                    ![i].promise = "resolved"]
        /\ UNCHANGED <<setup, config, validated, psVars, cVars, rpSubject, rqCalls, rpLoop,
                       rpBus, replies>>

\* withSpan ends the span of a request whose callback has settled
RpWithSpanSettles ==
    \E i \in 1..Len(rpMsgs) :
        /\ rpLoop # "down"
        /\ rpMsgs[i].promise \in {"resolved", "rejected"}
        /\ rpMsgs' = [rpMsgs EXCEPT ![i] = withSpanSettle(@)]
        /\ UNCHANGED <<setup, config, validated, psVars, cVars, rpSubject, rqCalls, rpLoop,
                       rpBus, replies>>

\* the process of the replier ends on a rejection nobody handles
RpProcessEnds ==
    /\ RejectionPending(rpLoop, rpMsgs)
    /\ rpLoop' = "down"
    /\ UNCHANGED <<setup, config, validated, psVars, cVars, rpSubject, rqCalls, rpBus, rpMsgs,
                   replies>>

(***************************************************************************)
(* Durable consumer manager                                                *)
(***************************************************************************)
CsSubject == "foo.job"
consumers == [s \in {CsSubject} |-> zNumber]

dispatch(subject, form, data, dispatchSpan, id) ==
    LET envelope == OutEnvelope(subject, form, data, dispatchSpan, id)
        validation == validateEnvelope(envelope,
                          SubProp(envelope.data, consumers[subject]),
                          "BaseEnvelopeSchema", FALSE)
    IN  /\ dsCalls' = Append(dsCalls, OutCall(subject, form, data, dispatchSpan,
                                              envelope, validation))
        /\ stream' = IF validation.ok
                     THEN Append(stream, [src |-> Len(dsCalls) + 1, reply |-> 0,
                                          data |-> serializer(envelope)])
                     ELSE stream
        /\ UNCHANGED <<cLoop, interval, timers, nextTimer, pulls, pullCount, subOpen,
                       scheduledForStop, cMsgs>>

Dispatch ==
    \E form \in Forms, data \in Payloads, dispatchSpan \in ParentSpans, id \in CustomIds :
        /\ form = "function" => id = Str("1")
        /\ form = "object" => dispatchSpan = Undefined
        /\ Budget(dsCalls, stream, cMsgs, MaxDispatch)
        /\ dispatch(CsSubject, form, data, dispatchSpan, id)
        /\ UNCHANGED <<setup, config, validated, psVars, rpVars>>

\* dispatch(subject, b => b(data)), several messages in a row
DispatchByBuilder ==
    \E data \in Payloads :
        /\ Len(dsCalls) < MaxInOrder
        /\ dispatch(CsSubject, "function", data, Undefined, Str("1"))
        /\ UNCHANGED <<setup, config, validated, psVars, rpVars>>

\* another party publishes into the stream: bytes that are no JSON
CsForeignPublish ==
    /\ Budget(dsCalls, stream, cMsgs, MaxDispatch)
    /\ stream' = Append(stream, [src |-> 0, reply |-> 0, data |-> Garbage])
    /\ UNCHANGED <<setup, config, validated, psVars, rpVars, dsCalls, cLoop, interval, timers,
                   nextTimer, pulls, pullCount, subOpen, scheduledForStop, cMsgs>>

\* The polling state of one consume() call, which is what makes a consumer
\* of a subject: the closure variable `interval`
\* (0 is null), the timers armed in the runtime, the next handle setInterval
\* returns, the pull requests outstanding and the number of those issued.
Polling == [interval |-> interval, timers |-> timers, nextTimer |-> nextTimer,
            pulls |-> pulls, pullCount |-> pullCount]

SetPolling(st) ==
    /\ interval' = st.interval
    /\ timers' = st.timers
    /\ nextTimer' = st.nextTimer
    /\ pulls' = st.pulls
    /\ pullCount' = st.pullCount

\* subscription.pull({batch, expires})
pull(st) == [st EXCEPT !.pulls = Append(@, BatchSize), !.pullCount = @ + 1]

\* a faulty variant: startPolling does not look at the timer it holds
startPollingUnguarded(st) ==
    [pull(st) EXCEPT !.interval = st.nextTimer,
                     !.timers = @ \cup {st.nextTimer},
                     !.nextTimer = @ + 1]

startPolling(st) ==
    IF st.interval = 0
    THEN [pull(st) EXCEPT !.interval = st.nextTimer,
                                          !.timers = @ \cup {st.nextTimer},
                                          !.nextTimer = @ + 1]
    ELSE st

\* a faulty variant: the variable is reset, the timer is left running
clearOnMessageLeaky(st) == [st EXCEPT !.interval = 0]

\* a faulty variant: the loop body leaves the timer alone
clearOnMessageSkipped(st) == st

\* the head of the loop body: if (interval) { clearInterval(interval); interval = null }
clearOnMessage(st) ==
    IF st.interval # 0
    THEN [st EXCEPT !.timers = @ \ {st.interval}, !.interval = 0]
    ELSE st

\* the closure consume() pushes on pollings: the timer is cleared, the
\* variable keeps the handle
stopPolling(st) ==
    IF st.interval # 0 THEN [st EXCEPT !.timers = @ \ {st.interval}] ELSE st

\* consume(): pullSubscribe, the loop starts and waits, startPolling()
Consume ==
    /\ cLoop = "none"
    /\ pullCount < MaxPulls
    /\ cLoop' = "running"
    /\ subOpen' = TRUE
    /\ SetPolling(startPolling(Polling))
    /\ UNCHANGED <<setup, config, validated, psVars, rpVars, dsCalls, stream,
                   scheduledForStop, cMsgs>>

\* a tick of an armed timer: one more pull request
TimerTicks ==
    \E h \in timers :
        /\ cLoop # "down"
        /\ pullCount < MaxPulls
        /\ SetPolling(pull(Polling))
        /\ UNCHANGED <<setup, config, validated, psVars, rpVars, dsCalls, stream, cLoop,
                       subOpen, scheduledForStop, cMsgs>>

\* the oldest outstanding pull request lapses
PullExpires ==
    /\ pulls # <<>>
    /\ pulls' = Tail(pulls)
    /\ UNCHANGED <<setup, config, validated, psVars, rpVars, dsCalls, stream, cLoop, interval,
                   timers, nextTimer, pullCount, subOpen, scheduledForStop, cMsgs>>

\* one unit of credit of the oldest outstanding pull request is used
Served(p) == IF Head(p) = 1 THEN Tail(p) ELSE <<Head(p) - 1>> \o Tail(p)

\* a faulty variant: the loop takes the newest message the stream holds
ConsumeDeliverNewestFirst ==
    /\ cLoop = "running"
    /\ subOpen
    /\ stream # <<>>
    /\ pulls # <<>>
    /\ LET newest == stream[Len(stream)]
           r == withBasicPayload(newest)
       IN  /\ cLoop' = r.loop
           /\ cMsgs' = Append(cMsgs,
                 IF r.rec.decoded
                 THEN validatedCallback(r.rec, deserializer(newest.data),
                                        consumers[CsSubject])
                 ELSE r.rec)
    /\ SetPolling([clearOnMessage(Polling) EXCEPT !.pulls = Served(@)])
    /\ stream' = SubSeq(stream, 1, Len(stream) - 1)
    /\ UNCHANGED <<setup, config, validated, psVars, rpVars, dsCalls, subOpen, scheduledForStop>>

\* the body of the consumer loop for one message the stream delivers against
\* an outstanding pull request
\* dispatch(subject, b => b(10)), called again while the handlers of earlier
\* messages may still be suspended
DispatchNumber ==
    /\ Len(dsCalls) < MaxOverlap
    /\ dispatch(CsSubject, "function", Num(10), Undefined, Str("1"))
    /\ UNCHANGED <<setup, config, validated, psVars, rpVars>>

ConsumeDeliver ==
    /\ cLoop = "running"
    /\ subOpen
    /\ stream # <<>>
    /\ pulls # <<>>
    /\ LET r == withBasicPayload(Head(stream))
       IN  /\ cLoop' = r.loop
           /\ cMsgs' = Append(cMsgs,
                 IF r.rec.decoded
                 THEN validatedCallback(r.rec, deserializer(Head(stream).data),
                                        consumers[CsSubject])
                 ELSE r.rec)
    /\ SetPolling([clearOnMessage(Polling) EXCEPT !.pulls = Served(@)])
    /\ stream' = Tail(stream)
    /\ UNCHANGED <<setup, config, validated, psVars, rpVars, dsCalls, subOpen, scheduledForStop>>

\* the iteration over the subscription ends (the subscription was drained or
\* closed): the code after the loop runs
IterationEnds ==
    /\ cLoop = "running"
    /\ ~subOpen
    /\ scheduledForStop \/ interval # 0 \/ pullCount < MaxPulls
    /\ cLoop' = "ended"
    /\ SetPolling(IF ~scheduledForStop THEN startPolling(Polling) ELSE Polling)
    /\ UNCHANGED <<setup, config, validated, psVars, rpVars, dsCalls, stream, subOpen,
                   scheduledForStop, cMsgs>>

\* stop(): the stop flag is set and every closure of pollings is run
Stop ==
    /\ cLoop # "down"
    /\ ~scheduledForStop
    /\ scheduledForStop' = TRUE
    /\ IF cLoop # "none"
       THEN /\ SetPolling(stopPolling(Polling))
            /\ subOpen' = FALSE
       ELSE UNCHANGED <<interval, timers, nextTimer, pulls, pullCount, subOpen>>
    /\ UNCHANGED <<setup, config, validated, psVars, rpVars, dsCalls, stream, cLoop, cMsgs>>

\* connection.close(): every subscription of the connection is closed
ConnectionCloses ==
    /\ subOpen
    /\ subOpen' = FALSE
    /\ UNCHANGED <<setup, config, validated, psVars, rpVars, dsCalls, stream, cLoop, interval,
                   timers, nextTimer, pulls, pullCount, scheduledForStop, cMsgs>>

\* a faulty variant: the manager acknowledges the message when its handler
\* has returned
ConsumerReturnsAcked ==
    \E i \in 1..Len(cMsgs) :
        /\ cLoop # "down"
        /\ cMsgs[i].handler = "running"
        /\ cMsgs' = [cMsgs EXCEPT ![i].handler = "returned",
                                  ![i].promise = "resolved",
                                  ![i].ack = IF @.state = "none"
                                             THEN [state |-> "ack", by |-> "manager"]
                                             ELSE @]
        /\ UNCHANGED <<setup, config, validated, psVars, rpVars, dsCalls, stream, cLoop, interval,
                       timers, nextTimer, pulls, pullCount, subOpen, scheduledForStop>>

\* the consumer's promise resolves
ConsumerReturns ==
    \E i \in 1..Len(cMsgs) :
        /\ cLoop # "down"
        /\ cMsgs[i].handler = "running"
        /\ cMsgs' = [cMsgs EXCEPT ![i].handler = "returned",
                                  ![i].promise = "resolved"]
        /\ UNCHANGED <<setup, config, validated, psVars, rpVars, dsCalls, stream, cLoop, interval,
                       timers, nextTimer, pulls, pullCount, subOpen, scheduledForStop>>

\* the consumer throws, or its promise rejects
\* the handler acts on the message it was given: payload.message.ack(), nak()
\* or term(); a message that has been answered ignores further answers
ConsumerAcknowledges ==
    \E i \in 1..Len(cMsgs), answer \in {"ack", "nak", "term"} :
        /\ cLoop # "down"
        /\ cMsgs[i].handler = "running"
        /\ cMsgs[i].ack.state = "none"
        /\ cMsgs' = [cMsgs EXCEPT ![i].ack = [state |-> answer, by |-> "handler"]]
        /\ UNCHANGED <<setup, config, validated, psVars, rpVars, dsCalls, stream, cLoop, interval,
                       timers, nextTimer, pulls, pullCount, subOpen, scheduledForStop>>

ConsumerThrows ==
    \E i \in 1..Len(cMsgs) :
        /\ cLoop # "down"
        /\ cMsgs[i].handler = "running"
        /\ cMsgs' = [cMsgs EXCEPT ![i].handler = "threw",
                                  ![i].promise = "rejected",
                                  ![i].failure = "Error"]
        /\ UNCHANGED <<setup, config, validated, psVars, rpVars, dsCalls, stream, cLoop, interval,
                       timers, nextTimer, pulls, pullCount, subOpen, scheduledForStop>>

\* withSpan ends the span of a message whose callback has settled
CsWithSpanSettles ==
    \E i \in 1..Len(cMsgs) :
        /\ cLoop # "down"
        /\ cMsgs[i].promise \in {"resolved", "rejected"}
        /\ cMsgs' = [cMsgs EXCEPT ![i] = withSpanSettle(@)]
        /\ UNCHANGED <<setup, config, validated, psVars, rpVars, dsCalls, stream, cLoop, interval,
                       timers, nextTimer, pulls, pullCount, subOpen, scheduledForStop>>

\* the process of the consumer ends on a rejection nobody handles, and its
\* timers with it
CsProcessEnds ==
    /\ RejectionPending(cLoop, cMsgs)
    /\ cLoop' = "down"
    /\ timers' = {}
    /\ UNCHANGED <<setup, config, validated, psVars, rpVars, dsCalls, stream, interval,
                   nextTimer, pulls, pullCount, subOpen, scheduledForStop, cMsgs>>

(***************************************************************************)
(* Initial state: the broker as getBroker leaves it                        *)
(***************************************************************************)
NotValidated == [called |-> FALSE]

InitManagers(subjects) ==
    /\ validated = NotValidated
    /\ psCalls = <<>>
    /\ psSub = "none"
    /\ psBus = <<>>
    /\ psMsgs = <<>>
    /\ rpSubject \in subjects
    /\ rqCalls = <<>>
    /\ rpLoop = "none"
    /\ rpBus = <<>>
    /\ rpMsgs = <<>>
    /\ replies = <<>>
    /\ dsCalls = <<>>
    /\ stream = <<>>
    /\ cLoop = "none"
    /\ interval = 0
    /\ timers = {}
    /\ nextTimer = 1
    /\ pulls = <<>>
    /\ pullCount = 0
    /\ subOpen = FALSE
    /\ scheduledForStop = FALSE
    /\ cMsgs = <<>>

InitWith(setups, subjects) ==
    /\ setup \in setups
    /\ config = buildConfig(setup)
    /\ InitManagers(subjects)

\* the broker built from any configuration
Init == InitWith(SetupConfig, {"foo.ask"})
\* the broker built from the default configuration, the replier for any subject
InitReply == InitWith({"undefined"}, DOMAIN repliers)
\* the broker built from the default configuration
InitConsume == InitWith({"undefined"}, {"foo.ask"})

\* A manager constructed on a BrokerConfig of its own (the constructor takes
\* the config as it is): the schemaValidation switch on or off
BrokerConfigs ==
    {[buildConfig("undefined") EXCEPT !.schemaValidation = v] : v \in {"true", "false"}}

InitValidate ==
    /\ setup = "undefined"
    /\ config \in BrokerConfigs
    /\ InitManagers({"foo.ask"})

\* what validateEnvelope may be given: envelopes with and without id, of the
\* reply kinds and of none; no payload to validate, or a payload and its schema
ValidatedEnvelopes ==
    {CustomEnvelope(PsSubject, d, id) : d \in Payloads, id \in CustomIds}
    \cup {buildDataEnvelope("foo.ask", Num(20)),
          buildErrorEnvelope("foo.error", ErrorPayload("YO", Str("error")))}
ValidatedSubProps ==
    {NoSubProp}
    \cup {SubProp(d, sch) : d \in Payloads \cup {Undefined},
                            sch \in {zNumber, zString, zVoid}}
EnvelopeSchemas == {"BaseEnvelopeSchema", "DataEnvelopeSchema", "ErrorEnvelopeSchema"}

\* one call of validateEnvelope
ValidateEnvelope ==
    \E envelope \in ValidatedEnvelopes, subProp \in ValidatedSubProps,
       customEnvelopeSchema \in EnvelopeSchemas, throwException \in BOOLEAN :
        /\ validated' = [called |-> TRUE, envelope |-> envelope, subProp |-> subProp,
                         customEnvelopeSchema |-> customEnvelopeSchema,
                         throwException |-> throwException,
                         result |-> validateEnvelope(envelope, subProp,
                                        customEnvelopeSchema, throwException)]
        /\ UNCHANGED <<setup, config, psVars, rpVars, cVars>>

(***************************************************************************)
(* Specifications: each manager on its own, and the outbound calls of the  *)
(* three managers together                                                 *)
(***************************************************************************)
NextPubSub ==
    \/ Subscribe
    \/ Publish
    \/ PsForeignPublish
    \/ SubscribeDeliver
    \/ SubscriberReturns
    \/ SubscriberThrows
    \/ PsWithSpanSettles
    \/ PsProcessEnds

SpecPubSub == Init /\ [][NextPubSub]_vars

NextReply ==
    \/ Reply
    \/ RequestByBuilder
    \/ RpForeignPublish
    \/ ReplyDeliver
    \/ HandlerRepliesWithData
    \/ HandlerRepliesWithError
    \/ HandlerThrows
    \/ HandlerReturns
    \/ RpWithSpanSettles
    \/ RequestReceives
    \/ RequestTimesOut
    \/ RpProcessEnds

SpecReply == InitReply /\ [][NextReply]_vars

\* the replier whose handler replies, throws or returns without a word, and
\* the requests waiting for it. connection.request runs a timer of its own: a
\* request that stays without reply is rejected when the timeout has passed
NextReplyFair ==
    \/ Reply
    \/ RequestByBuilder
    \/ ReplyDeliver
    \/ HandlerRepliesWithData
    \/ HandlerRepliesWithError
    \/ HandlerThrows
    \/ HandlerReturns
    \/ RequestReceives
    \/ RequestTimesOut

SpecReplyFair == InitReply /\ [][NextReplyFair]_vars /\ WF_vars(RequestTimesOut)

\* the replier with several requests in flight: the loop takes the next
\* message while the handlers of earlier ones are suspended
NextReplyOverlap ==
    \/ Reply
    \/ RequestInFlight
    \/ ReplyDeliver
    \/ HandlerRepliesWithData
    \/ HandlerRepliesWithError
    \/ HandlerThrows
    \/ HandlerReturns

SpecReplyOverlap == InitReply /\ [][NextReplyOverlap]_vars

\* the three loops with several messages each, whose handlers return at any
\* time or never
NextLoops ==
    \/ Subscribe
    \/ PublishNumber
    \/ SubscribeDeliver
    \/ SubscriberReturns
    \/ Reply
    \/ RequestNumber
    \/ ReplyDeliver
    \/ HandlerReturns
    \/ Consume
    \/ DispatchNumber
    \/ ConsumeDeliver
    \/ ConsumerReturns

SpecLoops == InitConsume /\ [][NextLoops]_vars

\* request() against responders of any kind
NextRequest ==
    \/ Reply
    \/ Request
    \/ ForeignReplies
    \/ RequestReceives
    \/ RequestTimesOut

SpecRequest == InitReply /\ [][NextRequest]_vars

\* the replier and request() with reply envelopes of every make: built by the
\* reply functions, handed to them complete, sent by another responder
NextReplyEnvelope ==
    \/ Reply
    \/ RequestByBuilder
    \/ ReplyDeliver
    \/ HandlerRepliesWithData
    \/ HandlerRepliesWithError
    \/ HandlerRepliesWithEnvelope
    \/ HandlerThrows
    \/ HandlerReturns
    \/ ForeignReplies
    \/ RequestReceives

SpecReplyEnvelope == InitReply /\ [][NextReplyEnvelope]_vars

\* the consumer as the code has it: nothing sets scheduledForStop
NextConsume ==
    \/ Consume
    \/ Dispatch
    \/ CsForeignPublish
    \/ TimerTicks
    \/ PullExpires
    \/ ConsumeDeliver
    \/ IterationEnds
    \/ ConnectionCloses
    \/ ConsumerReturns
    \/ ConsumerThrows
    \/ CsWithSpanSettles
    \/ CsProcessEnds

SpecConsume == InitConsume /\ [][NextConsume]_vars

\* the consumer with stop()
NextConsumeStop == NextConsume \/ Stop

SpecConsumeStop == InitConsume /\ [][NextConsumeStop]_vars

\* The consumer under the scheduling of the runtime and of the server: an
\* armed timer ticks, an outstanding pull request lapses, the iterator hands
\* over a message it holds, the code after the loop runs once the iteration is
\* over, withSpan's .then / .catch run once the callback has settled.  Nothing
\* makes the application dispatch, a handler finish or the connection close.
SpecConsumeFair ==
    /\ SpecConsume
    /\ WF_vars(TimerTicks)
    /\ WF_vars(PullExpires)
    /\ WF_vars(ConsumeDeliver)
    /\ WF_vars(IterationEnds)
    /\ WF_vars(CsWithSpanSettles)

\* the consumer taking several messages of the application, their handlers
\* running side by side
NextConsumeInOrder ==
    \/ Consume
    \/ DispatchByBuilder
    \/ TimerTicks
    \/ PullExpires
    \/ ConsumeDeliver
    \/ ConsumerReturns
    \/ ConsumerThrows

SpecConsumeInOrder == InitConsume /\ [][NextConsumeInOrder]_vars

\* the consumer whose handlers acknowledge the messages they are given, or
\* leave them alone
NextConsumeAck ==
    \/ Consume
    \/ DispatchByBuilder
    \/ TimerTicks
    \/ PullExpires
    \/ ConsumeDeliver
    \/ ConsumerAcknowledges
    \/ ConsumerReturns
    \/ ConsumerThrows

SpecConsumeAck == InitConsume /\ [][NextConsumeAck]_vars

\* validateEnvelope on its own
NextValidate == ValidateEnvelope

SpecValidate == InitValidate /\ [][NextValidate]_vars

\* publish, dispatch and request side by side
OutboundBudget == Len(psCalls) + Len(dsCalls) + Len(rqCalls) < MaxOutbound

OutboundPublish == OutboundBudget /\ Publish
OutboundDispatch == OutboundBudget /\ Dispatch
OutboundRequest == OutboundBudget /\ Request
OutboundRequestWithSpan == OutboundBudget /\ RequestWithSpan

NextOutbound ==
    \/ Subscribe
    \/ Reply
    \/ OutboundPublish
    \/ OutboundDispatch
    \/ OutboundRequest

SpecOutbound == Init /\ [][NextOutbound]_vars

\* the three managers from the producing call to the start of the consuming
\* side's span
NextTrace ==
    \/ Subscribe
    \/ Reply
    \/ Consume
    \/ OutboundPublish
    \/ OutboundDispatch
    \/ OutboundRequestWithSpan
    \/ SubscribeDeliver
    \/ ReplyDeliver
    \/ ConsumeDeliver

SpecTrace == InitConsume /\ [][NextTrace]_vars

(***************************************************************************)
(* Properties                                                              *)
(***************************************************************************)
RepliesFor(i) == {n \in 1..Len(replies) : replies[n].msg = i}

\* message i has been answered, at its reply destination, with an error
\* reply of the given code
ErrorReplied(i, code) ==
    \E n \in RepliesFor(i) :
        /\ replies[n].to = rpMsgs[i].reply
        /\ deserializer(replies[n].data).type = Str("error")
        /\ deserializer(replies[n].data).error.code = Str(code)

\* C1: every message that publish() put on the bus for a payload satisfying the
\* subject's schema, once the subscription loop has taken it, has been handed
\* to the subscriber with data equal to the published payload.
RoundTripFidelity ==
    \A i \in 1..Len(psMsgs) :
        (/\ psMsgs[i].src > 0
         /\ safeParse(subscriptions[PsSubject], psCalls[psMsgs[i].src].payload))
        => (/\ psMsgs[i].handler # "none"
            /\ psMsgs[i].data = psCalls[psMsgs[i].src].payload)

\* a call whose payload violates the schema was rejected and handed nothing on
InvalidRejected(calls, schema) ==
    \A c \in 1..Len(calls) :
        ~safeParse(schema, calls[c].payload)
        => (calls[c].outcome = "rejected" /\ calls[c].handed = 0)

\* every message on the bus comes from a call whose payload satisfies the schema
OnlyValidOn(bus, calls, schema) ==
    \A n \in 1..Len(bus) :
        bus[n].src > 0 => safeParse(schema, calls[bus[n].src].payload)

\* C2: publish, dispatch and request reject every payload that violates the
\* subject's schema and hand no message for it to the bus.
OutboundRejectsInvalid ==
    /\ InvalidRejected(psCalls, subscriptions[PsSubject])
    /\ InvalidRejected(dsCalls, consumers[CsSubject])
    /\ InvalidRejected(rqCalls, repliers[rpSubject].request)
    /\ OnlyValidOn(psBus, psCalls, subscriptions[PsSubject])
    /\ OnlyValidOn(stream, dsCalls, consumers[CsSubject])
    /\ OnlyValidOn(rpBus, rqCalls, repliers[rpSubject].request)

\* C2 witness: a dispatch and a request, each with a violating payload, have
\* been made and rejected.
OutboundRejectedSeen ==
    /\ \E c \in 1..Len(dsCalls) :
           ~safeParse(consumers[CsSubject], dsCalls[c].payload)
           /\ dsCalls[c].outcome = "rejected"
    /\ \E c \in 1..Len(rqCalls) :
           ~safeParse(repliers[rpSubject].request, rqCalls[c].payload)
           /\ rqCalls[c].outcome = "rejected"

\* C3: at most one poll timer is armed for the consumer.
AtMostOneTimer == Cardinality(timers) <= 1

\* C3 witness: the timer was disarmed by a message and armed again when the
\* iteration ended.
TimerRearmed == nextTimer = 3 /\ Cardinality(timers) = 1 /\ cMsgs # <<>>

\* C4: once request() has received the reply for a request whose handler
\* called replyWithData, once, with a value satisfying the reply schema, it
\* has resolved to a success envelope whose data is that value.
RequestSuccessPath ==
    \A i \in 1..Len(rpMsgs) :
        LET m == rpMsgs[i] IN
        (/\ m.src > 0
         /\ m.calls = 1
         /\ m.said[1].fn = "replyWithData"
         /\ safeParse(repliers[rpSubject].reply, m.said[1].data)
         /\ rqCalls[m.src].outcome \in {"resolved", "replyRejected"})
        => (/\ rqCalls[m.src].outcome = "resolved"
            /\ rqCalls[m.src].resultType = Str("success")
            /\ rqCalls[m.src].result = m.said[1].data)

\* the handler's one reply call was replyWithError with a declared code and
\* data satisfying the schema declared for it
DeclaredErrorSaid(m) ==
    /\ m.calls = 1
    /\ m.said[1].fn = "replyWithError"
    /\ m.said[1].error.code.v \in DOMAIN repliers[rpSubject].errors
    /\ safeParse(repliers[rpSubject].errors[m.said[1].error.code.v],
                 m.said[1].error.data)

\* C5: once request() has received the reply for a request whose handler
\* called replyWithError, once, with a declared code and data satisfying the
\* schema of that code, it has resolved to an error envelope with that code
\* and that data.
RequestErrorPath ==
    \A i \in 1..Len(rpMsgs) :
        LET m == rpMsgs[i] IN
        (/\ m.src > 0
         /\ DeclaredErrorSaid(m)
         /\ rqCalls[m.src].outcome \in {"resolved", "replyRejected"})
        => (/\ rqCalls[m.src].outcome = "resolved"
            /\ rqCalls[m.src].resultType = Str("error")
            /\ rqCalls[m.src].resultError = m.said[1].error)

\* C6: for a request message without reply destination no reply is published,
\* the handler is not called, and no error comes out of its processing.
NoReplyDestinationIsHarmless ==
    \A i \in 1..Len(rpMsgs) :
        rpMsgs[i].reply = 0
        => (/\ RepliesFor(i) = {}
            /\ rpMsgs[i].handler = "none"
            /\ rpMsgs[i].decoded
            /\ rpMsgs[i].promise \in {"resolved", "settled"}
            /\ rpMsgs[i].span.status = "unset")

\* C7: with schemaValidation set to false in the configuration given to the
\* broker, publish() does not reject a payload that violates the subject's
\* schema, and the subscriber is handed that payload once the message is taken.
ValidationToggleOff ==
    setup = "false" =>
        /\ \A c \in 1..Len(psCalls) :
               ~safeParse(subscriptions[PsSubject], psCalls[c].payload)
               => psCalls[c].outcome = "sent"
        /\ \A i \in 1..Len(psMsgs) :
               psMsgs[i].src > 0 => psMsgs[i].handler # "none"

\* C8: a request with a reply destination whose handler has finished, having
\* called one reply function once or having thrown, has exactly one reply
\* published to its reply destination.
ExactlyOneReply ==
    \A i \in 1..Len(rpMsgs) :
        LET m == rpMsgs[i] IN
        (/\ m.reply # 0
         /\ m.handler \in {"returned", "threw"}
         /\ m.calls = 1 \/ m.handler = "threw")
        => Cardinality(RepliesFor(i)) = 1

\* C9: when the handler has thrown without having called a reply function, an
\* INTERNAL_ERROR reply is published to the reply destination; the span is
\* still open then, and withSpan afterwards records the exception, sets the
\* error status and ends the span.
HandlerErrorReplied ==
    \A i \in 1..Len(rpMsgs) :
        LET m == rpMsgs[i] IN
        (m.handler = "threw" /\ m.calls = 0)
        => (/\ ErrorReplied(i, "INTERNAL_ERROR")
            /\ m.promise \in {"rejected", "settled"}
            /\ m.promise = "rejected" => m.span.ended = 0
            /\ m.promise = "settled" => (/\ m.span.exceptions = 1
                                         /\ m.span.status = "error"
                                         /\ m.span.ended = 1))

\* C9 witness: a handler has thrown without replying and withSpan has ended
\* the span of its request.
HandlerErrorSeen ==
    \E i \in 1..Len(rpMsgs) :
        /\ rpMsgs[i].handler = "threw"
        /\ rpMsgs[i].calls = 0
        /\ rpMsgs[i].promise = "settled"

\* a decoded request with a reply destination whose payload violates the
\* request schema
InvalidRequest(m) ==
    /\ m.decoded
    /\ m.reply # 0
    /\ ~safeParse(repliers[rpSubject].request, m.received)

\* C10: a request with a reply destination whose payload violates the request
\* schema is answered with a PAYLOAD_VALIDATION error reply and never reaches
\* the handler.
InvalidRequestRejected ==
    \A i \in 1..Len(rpMsgs) :
        InvalidRequest(rpMsgs[i])
        => (/\ ErrorReplied(i, "PAYLOAD_VALIDATION")
            /\ rpMsgs[i].handler = "none")

\* C10 witness: such a request has been taken by the reply loop.
InvalidRequestSeen ==
    \E i \in 1..Len(rpMsgs) : InvalidRequest(rpMsgs[i])

\* the data of the success envelope for x, as the requester decodes it
OnWire(x) == deserializer(serializer(buildDataEnvelope(rpSubject, x))).data

\* the k-th reply call of the handler of message i was replyWithData with data
\* violating the reply schema
InvalidDataSaid(i, k) ==
    /\ rpMsgs[i].said[k].fn = "replyWithData"
    /\ ~safeParse(repliers[rpSubject].reply, rpMsgs[i].said[k].data)

\* C11: when the handler has called replyWithData with data violating the reply
\* schema, the call has raised, no success envelope carrying that data has been
\* published for the request, and an INTERNAL_ERROR reply has been published to
\* its reply destination.
InvalidReplyDataRefused ==
    \A i \in 1..Len(rpMsgs) :
        \A k \in 1..Len(rpMsgs[i].said) :
            InvalidDataSaid(i, k)
            => (/\ rpMsgs[i].said[k].raised
                /\ ErrorReplied(i, "INTERNAL_ERROR")
                /\ \A n \in RepliesFor(i) :
                       ~(/\ deserializer(replies[n].data).type = Str("success")
                         /\ deserializer(replies[n].data).data
                                = OnWire(rpMsgs[i].said[k].data)))

\* C11 witness: a handler has called replyWithData with such data.
InvalidReplyDataSeen ==
    \E i \in 1..Len(rpMsgs) : \E k \in 1..Len(rpMsgs[i].said) : InvalidDataSaid(i, k)

\* the reply the call c of request() has taken satisfies the schemas of its
\* type, and is what the call returned
ReplyInContract(c) ==
    LET bytes == FirstReply(c).data
        resData == deserializer(bytes)
        errors == repliers[rpSubject].errors
    IN  /\ ~deserializerThrows(bytes)
        /\ IF resData.type = Str("success")
           THEN /\ DataEnvelopeSchemaOk(resData)
                /\ safeParse(repliers[rpSubject].reply, resData.data)
           ELSE /\ ErrorEnvelopeSchemaOk(resData)
                /\ (resData.error.code.k = "string"
                    /\ resData.error.code.v \in DOMAIN errors)
                   => safeParse(errors[resData.error.code.v], resData.error.data)
        /\ rqCalls[c].resultType = resData.type
        /\ rqCalls[c].result = resData.data
        /\ rqCalls[c].resultError = resData.error

\* C12: a call of request() that has returned a reply has returned one that
\* satisfies the schemas of its type: the data envelope shape and the reply
\* schema for 'success', otherwise the error envelope shape and the schema
\* declared for the error code.
RequestReturnsOnlyValid ==
    \A c \in 1..Len(rqCalls) :
        rqCalls[c].outcome = "resolved" => ReplyInContract(c)

\* C12 witness: request() has rejected on a reply that decodes and is out of
\* contract.
OutOfContractReplySeen ==
    \E c \in 1..Len(rqCalls) :
        /\ rqCalls[c].outcome = "replyRejected"
        /\ ~deserializerThrows(FirstReply(c).data)

\* the request messages of call c that are on the subject or were taken from it
SentFor(c) ==
    Cardinality({n \in 1..Len(rpBus) : rpBus[n].src = c})
    + Cardinality({i \in 1..Len(rpMsgs) : rpMsgs[i].src = c})

\* C13: a call of request() that has timed out has rejected, returning nothing,
\* and has handed one request message to the bus: there is no second message
\* of the call on the subject.
TimeoutRejectsWithoutRetry ==
    \A c \in 1..Len(rqCalls) :
        rqCalls[c].outcome = "timeout"
        => (/\ rqCalls[c].handed = 1
            /\ SentFor(c) <= 1
            /\ rqCalls[c].resultType = Undefined
            /\ rqCalls[c].result = Undefined
            /\ rqCalls[c].resultError = NoError)

\* C13 witness: a request has timed out whose handler returned without replying.
TimeoutSeen ==
    \E c \in 1..Len(rqCalls) :
        /\ rqCalls[c].outcome = "timeout"
        /\ \E i \in 1..Len(rpMsgs) :
               /\ rpMsgs[i].src = c
               /\ rpMsgs[i].handler = "returned"
               /\ RepliesFor(i) = {}

\* every message the subscription loop has taken so far decoded and carried a
\* payload satisfying the subject's schema
AllValidSoFar(msgs, schema) ==
    \A j \in 1..Len(msgs) : msgs[j].decoded /\ safeParse(schema, msgs[j].received)

\* C14: as long as the messages taken by the subscription loop were all valid,
\* the loop is running whatever their handlers did - so a handler that threw
\* has not ended it - and once withSpan has settled such a message its span
\* holds the exception, the error status and is ended.
HandlerErrorKeepsLoop ==
    (psMsgs # <<>> /\ AllValidSoFar(psMsgs, subscriptions[PsSubject]))
    => (/\ psSub = "running"
        /\ \A i \in 1..Len(psMsgs) :
               (psMsgs[i].handler = "threw" /\ psMsgs[i].promise = "settled")
               => (/\ psMsgs[i].span.exceptions = 1
                   /\ psMsgs[i].span.status = "error"
                   /\ psMsgs[i].span.ended = 1))

\* no handler of the messages taken so far has thrown, and all of them decoded
NoThrowSoFar(msgs) ==
    \A j \in 1..Len(msgs) : msgs[j].decoded /\ msgs[j].handler # "threw"

\* C15: the handler of subscribe and of consume is not called for a message
\* whose payload violates the schema, and as long as the messages taken all
\* decoded and no handler threw, the loop is running - so a message rejected by
\* validation has not ended it.
InvalidInboundKeepsLoop ==
    /\ \A i \in 1..Len(psMsgs) :
           (psMsgs[i].decoded
            /\ ~safeParse(subscriptions[PsSubject], psMsgs[i].received))
           => psMsgs[i].handler = "none"
    /\ \A i \in 1..Len(cMsgs) :
           (cMsgs[i].decoded /\ ~safeParse(consumers[CsSubject], cMsgs[i].received))
           => cMsgs[i].handler = "none"
    /\ (psMsgs # <<>> /\ NoThrowSoFar(psMsgs)) => psSub = "running"
    /\ (cMsgs # <<>> /\ NoThrowSoFar(cMsgs)) => cLoop \in {"running", "ended"}

\* C16: whatever the messages taken so far were and whatever became of them,
\* the subscribe, reply and consume loops have not been terminated.
LoopsNeverCrash ==
    /\ psSub \notin {"dead", "down"}
    /\ rpLoop \notin {"dead", "down"}
    /\ cLoop \notin {"dead", "down"}

\* message m of the reply loop was dropped for lacking a reply destination, or
\* refused for its payload
RejectedRequest(m) ==
    /\ m.decoded
    /\ m.reply = 0 \/ ~safeParse(repliers[rpSubject].request, m.received)

\* C17: as long as the reply loop has only taken requests it dropped for
\* lacking a reply destination or refused for their payload, the loop is
\* running and takes the next request.
RejectedRequestsKeepLoop ==
    (rpMsgs # <<>> /\ \A i \in 1..Len(rpMsgs) : RejectedRequest(rpMsgs[i]))
    => rpLoop = "running"

\* C18: in the step in which the consumer loop takes a message - the step that
\* calls its handler - no poll timer is left armed, and a pull request issued
\* while no timer is armed is the one startPolling issues as it arms the timer:
\* no tick issues one between an arrival and the next re-arm.
DisarmOnArrival ==
    [][/\ Len(cMsgs') > Len(cMsgs) => timers' = {}
       /\ (timers = {} /\ pullCount' > pullCount) => timers' # {}]_vars

\* C18 witness: a message has arrived while the timer was armed, its handler is
\* running and no timer is armed.
DisarmedOnArrival ==
    /\ cLoop = "running"
    /\ nextTimer > 1
    /\ timers = {}
    /\ interval = 0
    /\ \E i \in 1..Len(cMsgs) : cMsgs[i].handler = "running"

\* the consumer loop is waiting on an open subscription
Iterating == cLoop = "running" /\ subOpen

\* C19: a consumer whose loop is waiting on an open subscription with no timer
\* armed and no pull request outstanding - the timer was disarmed by a message
\* and the batch is used up or has lapsed - gets its timer armed again and a
\* pull request issued, unless the loop ends or a callback has failed first.
RearmAfterBatch ==
    (Iterating /\ timers = {} /\ pulls = <<>> /\ pullCount < MaxPulls)
    ~> (timers # {} \/ pulls # <<>> \/ ~Iterating \/ RejectionPending(cLoop, cMsgs))

\* C20: at most one pull request of the consumer is outstanding.
PullCreditCap == Len(pulls) <= 1

\* C21: a consumer that has been stopped - the stop flag is set, or its
\* subscription was drained or closed and its iteration is over - has no poll
\* timer armed; the end of the iteration does not leave or put one there.
StoppedConsumerIsQuiet ==
    (scheduledForStop \/ cLoop = "ended") => timers = {}

\* the consumer is meant to call its handler for message m
Eligible(m) == m.decoded /\ safeParse(consumers[CsSubject], m.received)

\* C22: the consumer loop takes the messages of the stream in the order the
\* stream holds them, and the handler of a message is called in the step that
\* takes it: when the handler of a later message has been called, so has that
\* of every earlier message the consumer calls its handler for.
HandlersInDeliveryOrder ==
    /\ \A i, j \in 1..Len(cMsgs) : i < j => cMsgs[i].src < cMsgs[j].src
    /\ \A i \in 1..Len(cMsgs) : \A n \in 1..Len(stream) : cMsgs[i].src < stream[n].src
    /\ \A i, j \in 1..Len(cMsgs) :
           (i < j /\ cMsgs[j].handler # "none" /\ Eligible(cMsgs[i]))
           => cMsgs[i].handler # "none"

\* C22 witness: two messages have been taken, the handler of the first is
\* still running and that of the second has been called.
HandlersOverlap ==
    /\ Len(cMsgs) = 2
    /\ cMsgs[1].handler = "running"
    /\ cMsgs[2].handler = "running"

\* the span of every message taken from one of the application's own calls is
\* linked to the span context of the parent span the call was given, and has
\* no link when the call was given none
LinkedToParent(msgs, calls) ==
    \A i \in 1..Len(msgs) :
        (msgs[i].src > 0 /\ msgs[i].decoded)
        => (/\ msgs[i].span.started
            /\ msgs[i].span.link = calls[msgs[i].src].parent)

\* C23: for publish, dispatch and request alike, the span started on the
\* consuming side is linked to the parent span the producing call was given,
\* and has no link when it was given none.
TraceCorrelation ==
    /\ LinkedToParent(psMsgs, psCalls)
    /\ LinkedToParent(cMsgs, dsCalls)
    /\ LinkedToParent(rpMsgs, rqCalls)

\* field x of an envelope on the wire is present and not empty
PresentNonEmpty(x) == x.k \in {"string", "number"} /\ x.v # ""

\* every message the application's calls have put on bus carries an envelope
\* whose id, subject, service and instance are present and not empty
EnvelopesComplete(bus) ==
    \A n \in 1..Len(bus) :
        bus[n].src > 0
        => (/\ PresentNonEmpty(bus[n].data.json.id)
            /\ PresentNonEmpty(bus[n].data.json.subject)
            /\ PresentNonEmpty(bus[n].data.json.service)
            /\ PresentNonEmpty(bus[n].data.json.instance))

\* C24: every envelope publish, dispatch or request hands to the bus, built by
\* the envelope maker or supplied complete by the caller, has id, subject,
\* service and instance present and not empty.
EnvelopeInvariant ==
    /\ EnvelopesComplete(psBus)
    /\ EnvelopesComplete(stream)
    /\ EnvelopesComplete(rpBus)

\* a reply envelope of the given type, data and error has exactly the one of
\* data / error that goes with its type (a success envelope for a subject
\* whose reply is void has no data to carry)
OneOfDataError(type, data, error) ==
    \/ /\ type = Str("success")
       /\ ~error.present
       /\ data # Undefined \/ repliers[rpSubject].reply = zVoid
    \/ /\ type = Str("error")
       /\ error.present
       /\ data = Undefined

\* C25: every reply envelope the replier has published, and every one request()
\* has returned, is of type 'success' with data and no error, or of type
\* 'error' with an error and no data.
ReplyEnvelopeInvariant ==
    /\ \A n \in 1..Len(replies) :
           replies[n].msg > 0
           => LET e == deserializer(replies[n].data)
              IN  OneOfDataError(e.type, e.data, e.error)
    /\ \A c \in 1..Len(rqCalls) :
           rqCalls[c].outcome = "resolved"
           => OneOfDataError(rqCalls[c].resultType, rqCalls[c].result,
                             rqCalls[c].resultError)

\* the two stages of the last call of validateEnvelope, taken by themselves
BaseStageOk == safeParse(validated.customEnvelopeSchema, validated.envelope)
PayloadStageOk ==
    validated.subProp.present
    => safeParse(validated.subProp.schema, validated.subProp.data)

\* C26: with validation enabled, validateEnvelope succeeds exactly when the
\* envelope schema and the payload schema both pass; when the envelope schema
\* fails, it is the only schema evaluated and the error, returned or raised as
\* asked, is its error; when only the payload schema fails the error is the
\* payload schema's, after both were evaluated.
ValidationOrder ==
    (validated.called /\ Truthy(config.schemaValidation))
    => LET r == validated.result
       IN  /\ r.ok <=> (BaseStageOk /\ PayloadStageOk)
           /\ ~BaseStageOk => (/\ r.error = validated.customEnvelopeSchema
                               /\ r.evaluated = 1
                               /\ r.thrown = validated.throwException)
           /\ (BaseStageOk /\ ~PayloadStageOk)
              => (/\ r.error = validated.subProp.schema
                  /\ r.evaluated = 2
                  /\ r.thrown = validated.throwException)

\* C26 witness: validateEnvelope was called, with validation enabled, on an
\* envelope and a payload that both fail their schemas.
BothStagesFail ==
    /\ validated.called
    /\ Truthy(config.schemaValidation)
    /\ ~BaseStageOk
    /\ ~PayloadStageOk

\* C27: with the schemaValidation switch off, validateEnvelope returns success
\* whatever the envelope and the payload are, and raises nothing even when
\* asked to raise on failure.
ValidateButIgnore ==
    (validated.called /\ ~Truthy(config.schemaValidation))
    => (validated.result.ok /\ ~validated.result.thrown)

\* C27 witness: with the switch off, validateEnvelope was asked to raise on
\* failure and given an envelope that fails its schema.
IgnoredFailureSeen ==
    /\ validated.called
    /\ ~Truthy(config.schemaValidation)
    /\ validated.throwException
    /\ ~BaseStageOk

\* the spans and promises of withSpan for the messages msgs
SpanLifecycleOf(msgs) ==
    \A i \in 1..Len(msgs) :
        LET m == msgs[i] IN
        /\ m.span.ended <= 1
        /\ m.span.ended = 1 <=> m.promise = "settled"
        /\ m.promise # "settled" => m.outer.state = "pending"
        /\ (m.promise = "settled" /\ m.failure = "none")
           => (/\ m.span.log = << <<"end">> >>
               /\ m.span.status = "unset"
               /\ m.outer = [state |-> "resolved", error |-> "none"])
        /\ (m.promise = "settled" /\ m.failure # "none")
           => (/\ m.span.log = << <<"recordException", m.failure>>,
                                  <<"setStatus", "ERROR">>, <<"end">> >>
               /\ m.span.status = "error"
               /\ m.outer = [state |-> "rejected", error |-> m.failure])

\* C28: a span withSpan has started is ended at most once, and once when the
\* body has settled: after the body completed, with no error status and the
\* returned promise resolved; after the body failed, with the exception
\* recorded and the error status set before the end, and the returned promise
\* rejected with the error of the body.
SpanLifecycle ==
    /\ SpanLifecycleOf(psMsgs)
    /\ SpanLifecycleOf(rpMsgs)
    /\ SpanLifecycleOf(cMsgs)

\* C28 witness: withSpan has settled one message whose handler returned and one
\* whose handler threw.
BothEndingsSeen ==
    /\ \E i \in 1..Len(psMsgs) :
           psMsgs[i].promise = "settled" /\ psMsgs[i].handler = "returned"
    /\ \E i \in 1..Len(psMsgs) :
           psMsgs[i].promise = "settled" /\ psMsgs[i].handler = "threw"

\* the error of an error envelope built for err, as the requester decodes it
ErrorOnWire(err) ==
    deserializer(serializer(buildErrorEnvelope(rpSubject, err))).error

\* an error reply carrying err has been published for message i
ErrorPublished(i, err) ==
    \E n \in RepliesFor(i) :
        /\ deserializer(replies[n].data).type = Str("error")
        /\ deserializer(replies[n].data).error = ErrorOnWire(err)

\* the k-th reply call of the handler of message i was replyWithError with a
\* declared code and data violating the schema declared for it
InvalidErrorSaid(i, k) ==
    LET what == rpMsgs[i].said[k]
        errors == repliers[rpSubject].errors
    IN  /\ what.fn = "replyWithError"
        /\ what.error.code.v \in DOMAIN errors
        /\ ~safeParse(errors[what.error.code.v], what.error.data)

\* the k-th reply call of the handler of message i was replyWithError with a
\* code that has no declared schema
UndeclaredErrorSaid(i, k) ==
    /\ rpMsgs[i].said[k].fn = "replyWithError"
    /\ rpMsgs[i].said[k].error.code.v \notin DOMAIN repliers[rpSubject].errors

\* C29: an error envelope the handler gave to replyWithError with a declared
\* code and data violating the schema of that code has not been published,
\* and the call has raised; one with a code that has no declared schema has
\* been published, whatever its data.
ErrorPayloadValidated ==
    \A i \in 1..Len(rpMsgs) :
        \A k \in 1..Len(rpMsgs[i].said) :
            /\ InvalidErrorSaid(i, k)
               => (/\ ~ErrorPublished(i, rpMsgs[i].said[k].error)
                   /\ rpMsgs[i].said[k].raised)
            /\ UndeclaredErrorSaid(i, k)
               => (/\ ErrorPublished(i, rpMsgs[i].said[k].error)
                   /\ ~rpMsgs[i].said[k].raised)

\* C29 witness: a handler has called replyWithError with a declared code and
\* data violating its schema.
InvalidErrorSeen ==
    \E i \in 1..Len(rpMsgs) : \E k \in 1..Len(rpMsgs[i].said) : InvalidErrorSaid(i, k)

\* code is declared for the subject of the replier, or reserved
InErrorDomain(code) ==
    /\ code.k = "string"
    /\ code.v \in DOMAIN repliers[rpSubject].errors \cup ReservedCodes

\* C30: every error envelope the replier has published and every error
\* envelope request() has returned carries a code declared for the subject or
\* one of the reserved codes PAYLOAD_VALIDATION and INTERNAL_ERROR.
ErrorCodeDomain ==
    /\ \A n \in 1..Len(replies) :
           (replies[n].msg > 0
            /\ deserializer(replies[n].data).type = Str("error"))
           => InErrorDomain(deserializer(replies[n].data).error.code)
    /\ \A c \in 1..Len(rqCalls) :
           (rqCalls[c].outcome = "resolved" /\ rqCalls[c].resultType = Str("error"))
           => InErrorDomain(rqCalls[c].resultError.code)


\* C31: every reply the replier has published for a message went to the
\* reply destination of that message, also when the handlers of several
\* requests are suspended together; the request that owns the destination is
\* the one the message came from.
ReplyRouting ==
    \A n \in 1..Len(replies) :
        replies[n].msg > 0
        => (/\ replies[n].to = rpMsgs[replies[n].msg].reply
            /\ rpMsgs[replies[n].msg].src > 0
               => replies[n].to = rpMsgs[replies[n].msg].src)

\* C31 witness: the handlers of two requests with different reply destinations
\* are suspended together and the handler of the earlier one has replied.
RepliedUnderOverlap ==
    \E i, j \in 1..Len(rpMsgs) :
        /\ i < j
        /\ rpMsgs[i].reply # rpMsgs[j].reply
        /\ rpMsgs[i].handler = "running"
        /\ rpMsgs[j].handler = "running"
        /\ rpMsgs[i].calls > 0
        /\ \E n \in RepliesFor(i) : replies[n].to = rpMsgs[i].reply


\* the handler of a message of msgs is suspended
HandlerSuspended(msgs) == \E i \in 1..Len(msgs) : msgs[i].handler = "running"

\* the handler of a message is suspended and the handler of a later message
\* has started and completed
Overtaken(msgs) ==
    \E i, j \in 1..Len(msgs) :
        /\ i < j
        /\ msgs[i].handler = "running"
        /\ msgs[j].handler = "returned"

\* C32: the subscribe, reply and consume loops take the next message while
\* handlers of earlier messages are suspended: whenever a loop is running, a
\* message is waiting for it (for the consumer: with a pull request
\* outstanding) and a handler is suspended, the loop can take the message.
LoopsDoNotAwaitHandlers ==
    /\ (psSub = "running" /\ psBus # <<>> /\ HandlerSuspended(psMsgs))
       => ENABLED SubscribeDeliver
    /\ (rpLoop = "running" /\ rpBus # <<>> /\ HandlerSuspended(rpMsgs))
       => ENABLED ReplyDeliver
    /\ (cLoop = "running" /\ subOpen /\ stream # <<>> /\ pulls # <<>>
        /\ HandlerSuspended(cMsgs))
       => ENABLED ConsumeDeliver

\* C32 witness: on each of the three loops the handler of a later message has
\* started and completed while the handler of an earlier message is suspended.
LaterHandlersCompleted ==
    /\ Overtaken(psMsgs)
    /\ Overtaken(rpMsgs)
    /\ Overtaken(cMsgs)


\* the handler of message i has returned normally and never called
\* replyWithData or replyWithError
ReturnedSilent(i) ==
    /\ i \in 1..Len(rpMsgs)
    /\ rpMsgs[i].handler = "returned"
    /\ rpMsgs[i].calls = 0

\* the handler of the message of call c of request() has returned silent
SilentFor(c) == \E i \in 1..Len(rpMsgs) : rpMsgs[i].src = c /\ ReturnedSilent(i)

\* C33: when the reply handler has returned normally without calling
\* replyWithData or replyWithError, the replier has published no reply for the
\* message, the request() call it came from never resolves, and that call is
\* in the end rejected with the timeout.
SilentHandlerTimesOut ==
    /\ [](\A i \in 1..Len(rpMsgs) :
             ReturnedSilent(i)
             => (/\ RepliesFor(i) = {}
                 /\ rpMsgs[i].src > 0
                    => rqCalls[rpMsgs[i].src].outcome \in {"sent", "timeout"}))
    /\ \A c \in 1..MaxRequests :
           SilentFor(c) ~> (c <= Len(rqCalls) /\ rqCalls[c].outcome = "timeout")

\* C33 witness: a handler has returned without replying while the request is
\* still waiting.
SilentReturnSeen ==
    \E i \in 1..Len(rpMsgs) :
        /\ ReturnedSilent(i)
        /\ rpMsgs[i].src > 0
        /\ rqCalls[rpMsgs[i].src].outcome = "sent"


StartPollingIdempotent ==
    [][/\ interval # 0 => startPolling(Polling) = Polling
       /\ (cLoop = "running" /\ cLoop' = "ended" /\ interval # 0)
          => (/\ pulls' = pulls
              /\ pullCount' = pullCount
              /\ interval' = interval
              /\ timers' = timers
              /\ nextTimer' = nextTimer)
       /\ pullCount' > pullCount
          => (/\ pullCount' = pullCount + 1
              /\ \/ interval = 0 /\ interval' # 0 /\ interval' \notin timers
                 \/ interval # 0 /\ interval' = interval /\ interval \in timers)]_vars

\* C35 witness: the loop has ended while the first timer was armed, startPolling
\* was called again, and that timer is still the one armed.
StartPollingWhileArmed ==
    /\ cLoop = "ended"
    /\ ~scheduledForStop
    /\ interval = 1
    /\ timers = {1}
    /\ nextTimer = 2

====
